---------------------------- MODULE Spec2Model ----------------------------
(***************************************************************************)
(* A model of md_to_epub.py: the Markdown-to-HTML pipeline of              *)
(* EpubConverter and the assembly of the ePub archive.                     *)
(*                                                                         *)
(* Text is modelled by TLA+ strings, character by character: Ch(s, i) is   *)
(* the i-th character of s (1-based).  Every regular expression of the     *)
(* source is modelled by a matcher that returns the length of the match    *)
(* that Python's re module finds at a given position (0 for no match), and *)
(* re.sub by a left-to-right scan that replaces each match and resumes     *)
(* after it.                                                               *)
(***************************************************************************)
EXTENDS Integers, Sequences, FiniteSets, TLC

VARIABLES
    pc,            \* position of the running procedure
    input_exists,  \* Path(md_file).exists()
    file_text,     \* the text of the input file, when it exists
    md_stem,       \* Path(md_file).stem; the file is named md_stem.md
    out_arg,       \* TRUE when the -o argument was given
    out_writable,  \* whether the output path can be opened for writing
    content,       \* self.content
    title,         \* self.title
    sections,      \* self.sections: sequence of [title, anchor, level]
    output_file,   \* self.output_file
    out_state,     \* the file at the output path: "absent", "stale" (a file
                   \* that was there before), "partial" (the archive while
                   \* it is written), "epub" (the closed archive)
    default_compression, \* the compression the ZipFile was opened with
    archive,       \* members written so far: sequence of [name, compress_type, data]
    stdout,        \* lines printed to stdout
    stderr,        \* lines printed to stderr
    exit_status,   \* -1 while the process runs, then its exit status
    lines,         \* _process_lists, _process_blockquotes, _process_tables: lines
    idx,           \* the number of lines the loop has consumed
    result,        \* result of the running line machine
    in_ul,         \* _process_lists: in_ul
    in_ol,         \* _process_lists: in_ol
    code,          \* _apply_syntax_highlighting: code
    pass,          \* _apply_syntax_highlighting: the number of substitutions done
    html,          \* _markdown_to_html: html
    stage_no,      \* _markdown_to_html: the number of stages done
    table_in,      \* _convert_table: lines
    table_out,     \* _convert_table: the list html, << >> before the call
    anchor_text,   \* _generate_anchor: text
    anchor_out,    \* _generate_anchor: the returned anchor
    in_blockquote, \* _process_blockquotes: in_blockquote
    table_lines,   \* _process_tables: table_lines
    in_table       \* _process_tables: in_table

main_vars == <<input_exists, file_text, md_stem, out_arg, out_writable, content,
               title, sections, output_file, out_state, default_compression,
               archive, stdout, stderr, exit_status>>

list_vars == <<lines, idx, result, in_ul, in_ol>>

highlight_vars == <<code, pass>>

pipeline_vars == <<html, stage_no>>

table_vars == <<table_in, table_out>>

anchor_vars == <<anchor_text, anchor_out>>

blockquote_vars == <<in_blockquote>>

table_machine_vars == <<table_lines, in_table>>

machine_vars == <<anchor_vars, blockquote_vars, table_machine_vars>>

vars == <<pc, main_vars, list_vars, highlight_vars, pipeline_vars, table_vars,
          machine_vars>>

-----------------------------------------------------------------------------
(* Characters and strings                                                  *)

\* s[i-1] in Python terms; the empty string outside the text
Ch(s, i) == IF i >= 1 /\ i <= Len(s) THEN SubSeq(s, i, i) ELSE ""

NL == "\n"

\* The backquote.  The lexer of TLA+ accepts no backquote inside a string, so
\* the model writes the backquote of the source and of the documents as a
\* tilde, a character that no pattern of the source mentions and that, like
\* the backquote, is neither a word character nor whitespace.
BT == "~"

\* the three backquotes of a code fence
FENCE == BT \o BT \o BT

LowerLetters == "abcdefghijklmnopqrstuvwxyz"

UpperLetters == "ABCDEFGHIJKLMNOPQRSTUVWXYZ"

DigitChars == {"0", "1", "2", "3", "4", "5", "6", "7", "8", "9"}

LetterChars == {Ch(LowerLetters, i) : i \in 1..26} \cup {Ch(UpperLetters, i) : i \in 1..26}

\* \w
WordChars == LetterChars \cup DigitChars \cup {"_"}

\* \s
SpaceChars == {" ", "\t", "\n", "\r", "\f"}

IsWord(c) == c \in WordChars

IsSpace(c) == c \in SpaceChars

IsDigit(c) == c \in DigitChars

\* str.startswith at an offset: p occurs in s at position i
StartsWithAt(s, i, p) ==
    /\ i >= 1
    /\ i + Len(p) - 1 <= Len(s)
    /\ SubSeq(s, i, i + Len(p) - 1) = p

startswith(s, p) == StartsWithAt(s, 1, p)

endswith(s, p) == Len(p) <= Len(s) /\ SubSeq(s, Len(s) - Len(p) + 1, Len(s)) = p

\* 'p in s'
contains(s, p) == \E i \in 1..Len(s) : StartsWithAt(s, i, p)

\* the least element of a non-empty set of integers
Min(S) == CHOOSE x \in S : \A y \in S : x <= y

\* str.lower() of one character
RECURSIVE lower_ch(_, _)
lower_ch(c, i) ==
    IF i > 26 THEN c
    ELSE IF Ch(UpperLetters, i) = c THEN Ch(LowerLetters, i)
    ELSE lower_ch(c, i + 1)

\* str.lower()
RECURSIVE lower_from(_, _)
lower_from(s, i) ==
    IF i > Len(s) THEN ""
    ELSE lower_ch(Ch(s, i), 1) \o lower_from(s, i + 1)

lower(s) == lower_from(s, 1)

\* number of leading whitespace characters of s from position i
RECURSIVE space_run(_, _)
space_run(s, i) ==
    IF i <= Len(s) /\ IsSpace(Ch(s, i)) THEN 1 + space_run(s, i + 1) ELSE 0

\* number of trailing whitespace characters of s[1..i]
RECURSIVE space_run_back(_, _)
space_run_back(s, i) ==
    IF i >= 1 /\ IsSpace(Ch(s, i)) THEN 1 + space_run_back(s, i - 1) ELSE 0

\* str.strip()
strip(s) ==
    LET a == space_run(s, 1)
    IN  IF a = Len(s) THEN ""
        ELSE SubSeq(s, a + 1, Len(s) - space_run_back(s, Len(s)))

\* str.split(sep) for a one-character sep: always at least one field
RECURSIVE split_from(_, _, _)
split_from(s, sep, start) ==
    LET seps == {i \in start..Len(s) : Ch(s, i) = sep}
    IN  IF seps = {} THEN <<SubSeq(s, start, Len(s))>>
        ELSE <<SubSeq(s, start, Min(seps) - 1)>> \o split_from(s, sep, Min(seps) + 1)

split(s, sep) == split_from(s, sep, 1)

\* sep.join(parts)
RECURSIVE join(_, _)
join(sep, parts) ==
    IF Len(parts) = 0 THEN ""
    ELSE IF Len(parts) = 1 THEN parts[1]
    ELSE parts[1] \o sep \o join(sep, Tail(parts))

\* lengths of maximal runs starting at position i
RECURSIVE word_run(_, _)
word_run(s, i) ==
    IF i <= Len(s) /\ IsWord(Ch(s, i)) THEN 1 + word_run(s, i + 1) ELSE 0

RECURSIVE digit_run(_, _)
digit_run(s, i) ==
    IF i <= Len(s) /\ IsDigit(Ch(s, i)) THEN 1 + digit_run(s, i + 1) ELSE 0

RECURSIVE char_run(_, _, _)
char_run(s, c, i) ==
    IF i <= Len(s) /\ Ch(s, i) = c THEN 1 + char_run(s, c, i + 1) ELSE 0

RECURSIVE class_run(_, _, _)
class_run(s, chars, i) ==
    IF i <= Len(s) /\ Ch(s, i) \in chars THEN 1 + class_run(s, chars, i + 1) ELSE 0

\* number of characters from position i to the end of its line
line_rest(s, i) ==
    LET ends == {j \in i..Len(s) : Ch(s, j) = NL}
    IN  IF i > Len(s) THEN 0
        ELSE IF ends = {} THEN Len(s) - i + 1
        ELSE Min(ends) - i

\* \b at position i (between s[i-1] and s[i])
word_boundary(s, i) ==
    (i >= 2 /\ i - 1 <= Len(s) /\ IsWord(Ch(s, i - 1))) # (i <= Len(s) /\ IsWord(Ch(s, i)))

\* ^ under re.MULTILINE
line_start(s, i) == i = 1 \/ Ch(s, i - 1) = NL


-----------------------------------------------------------------------------
(* Regular expressions                                                     *)

\* The position of the first occurrence of close at or after position lo such
\* that no character of s[b..] before it is in excl; 0 if there is none.
\* It models a lazy or negated-class body that starts at b, followed by a
\* literal: the scan from b stops at the first position that either starts
\* close (at or after lo) or holds an excluded character.
find_close(s, close, excl, b, lo) ==
    LET stops == {q \in b..Len(s) :
                    (q >= lo /\ StartsWithAt(s, q, close)) \/ Ch(s, q) \in excl}
    IN  IF stops = {} THEN 0
        ELSE IF Min(stops) >= lo /\ StartsWithAt(s, Min(stops), close) THEN Min(stops)
        ELSE 0

\* open (body) close, the body of at least min characters outside excl
delim_match(pat, s, p) ==
    IF ~StartsWithAt(s, p, pat.open) THEN 0
    ELSE LET b == p + Len(pat.open)
             q == find_close(s, pat.close, pat.excl, b, b + pat.min)
         IN  IF q = 0 THEN 0 ELSE q + Len(pat.close) - p

\* ```(\w+)?\n(.*?)\n``` with re.DOTALL: [len, lang, body], len = 0 for no match
fence_match(s, p) ==
    IF ~StartsWithAt(s, p, FENCE) THEN [len |-> 0, lang |-> "", body |-> ""]
    ELSE LET k == word_run(s, p + 3)
             b == p + 3 + k + 1
             q == find_close(s, NL \o FENCE, {}, b, b)
         IN  IF Ch(s, p + 3 + k) # NL \/ q = 0
             THEN [len |-> 0, lang |-> "", body |-> ""]
             ELSE [len |-> q + 4 - p,
                   lang |-> SubSeq(s, p + 3, p + 2 + k),
                   body |-> SubSeq(s, b, q - 1)]

\* the number of whitespace characters \s+ keeps, trying w, w-1, ..., 1, so
\* that (.+) can start right after them; 0 if none
RECURSIVE header_space(_, _, _)
header_space(s, t, w) ==
    IF w = 0 THEN 0
    ELSE IF t + w <= Len(s) /\ Ch(s, t + w) # NL THEN w
    ELSE header_space(s, t, w - 1)

\* ^(#{1,maxlevel})\s+(.+)$ with re.MULTILINE: [len, level, text]
header_match(s, p, maxlevel) ==
    LET h == char_run(s, "#", p)
        t == p + h
        w == header_space(s, t, space_run(s, t))
    IN  IF line_start(s, p) /\ h >= 1 /\ h <= maxlevel /\ w >= 1
        THEN [len |-> h + w + line_rest(s, t + w), level |-> h,
              text |-> SubSeq(s, t + w, t + w + line_rest(s, t + w) - 1)]
        ELSE [len |-> 0, level |-> 0, text |-> ""]

\* The length of the match of pattern pat at position p of s, 0 for no match
match_len(pat, s, p) ==
    CASE pat.kind = "delim" -> delim_match(pat, s, p)
      [] pat.kind = "line_comment" ->
            IF StartsWithAt(s, p, "//") THEN line_rest(s, p) ELSE 0
      [] pat.kind = "annotation" ->
            IF Ch(s, p) = "@" /\ word_run(s, p + 1) > 0
            THEN 1 + word_run(s, p + 1) ELSE 0
      [] pat.kind = "number" ->
            LET k == digit_run(s, p)
            IN  IF k > 0 /\ word_boundary(s, p) /\ word_boundary(s, p + k)
                THEN k ELSE 0
      [] pat.kind = "word" ->
            IF /\ StartsWithAt(s, p, pat.word)
               /\ word_boundary(s, p)
               /\ word_boundary(s, p + Len(pat.word))
            THEN Len(pat.word) ELSE 0
      [] pat.kind = "method" ->
            LET k == word_run(s, p)
            IN  IF k > 0 /\ Ch(s, p + k) = "(" THEN k ELSE 0
      [] pat.kind = "literal" ->
            IF StartsWithAt(s, p, pat.old) THEN Len(pat.old) ELSE 0
      [] pat.kind = "char_not_in" ->
            IF Ch(s, p) \notin pat.chars THEN 1 ELSE 0
      [] pat.kind = "run_of" -> class_run(s, pat.chars, p)

\* The replacement text of a match of length n at position p
replacement(pat, s, p, n) ==
    IF pat.kind \in {"literal", "char_not_in", "run_of"} THEN pat.pre
    ELSE IF pat.kind = "delim" /\ ~pat.whole
    THEN pat.pre \o SubSeq(s, p + Len(pat.open), p + n - 1 - Len(pat.close)) \o pat.post
    ELSE pat.pre \o SubSeq(s, p, p + n - 1) \o pat.post

\* re.sub(pat, repl, s) for a pattern that matches no empty string: the scan
\* from position p takes the leftmost position at or after p where the
\* pattern matches (M is the set of positions where it does), replaces the
\* match and resumes right after it.
RECURSIVE re_sub_from(_, _, _, _)
re_sub_from(pat, s, p, M) ==
    LET later == {q \in M : q >= p}
    IN  IF later = {} THEN SubSeq(s, p, Len(s))
        ELSE LET q == Min(later)
                 n == match_len(pat, s, q)
             IN  SubSeq(s, p, q - 1) \o replacement(pat, s, q, n)
                 \o re_sub_from(pat, s, q + n, later)

re_sub(pat, s) ==
    re_sub_from(pat, s, 1, {q \in 1..Len(s) : match_len(pat, s, q) > 0})

\* str.replace(old, new), old non-empty
replace(s, old, new) ==
    re_sub([kind |-> "literal", old |-> old, pre |-> new, post |-> ""], s)

-----------------------------------------------------------------------------
(* _apply_syntax_highlighting and _process_code_blocks                     *)

span_open(cls) == "<span class=\"" \o cls \o "\">"

span_close == "</span>"

keywords ==
    <<"public", "private", "protected", "class", "interface", "enum",
      "extends", "implements", "new", "return", "if", "else", "for",
      "while", "do", "switch", "case", "break", "continue", "try",
      "catch", "finally", "throw", "throws", "import", "package",
      "static", "final", "abstract", "synchronized", "volatile", "this",
      "super", "null", "true", "false", "void", "const", "let", "var",
      "function", "async", "await", "export", "default">>

types ==
    <<"String", "Integer", "Long", "Double", "Float", "Boolean", "List",
      "Map", "Set", "Optional", "ResponseEntity", "User", "Product", "Data",
      "HttpStatus", "HttpHeaders", "URI", "Resource", "Void", "CacheControl",
      "TimeUnit", "ServletUriComponentsBuilder", "MediaType", "Page",
      "LocalDateTime", "ErrorResponse", "ErrorDetails">>

wrap_pattern(kind, cls) ==
    [kind |-> kind, pre |-> span_open(cls), post |-> span_close]

word_pattern(w, cls) ==
    [kind |-> "word", word |-> w, pre |-> span_open(cls), post |-> span_close]

\* the substitutions of _apply_syntax_highlighting, in the order it runs them
highlight_passes ==
    << wrap_pattern("line_comment", "comment"),
       [kind |-> "delim", open |-> "/*", close |-> "*/", min |-> 0, excl |-> {},
        whole |-> TRUE, pre |-> span_open("comment"), post |-> span_close],
       [kind |-> "delim", open |-> "\"", close |-> "\"", min |-> 0, excl |-> {"\""},
        whole |-> TRUE, pre |-> span_open("string"), post |-> span_close],
       wrap_pattern("annotation", "annotation"),
       wrap_pattern("number", "number") >>
    \o [i \in 1..Len(keywords) |-> word_pattern(keywords[i], "keyword")]
    \o [i \in 1..Len(types) |-> word_pattern(types[i], "type")]
    \o << wrap_pattern("method", "method") >>

\* the basic escaping of &, < and >
html_escape(s) == replace(replace(replace(s, "&", "&amp;"), "<", "&lt;"), ">", "&gt;")

\* Passes lo..hi applied in order.  The text between two halves is bound by a
\* set constructor so that it is computed before the second half starts.
RECURSIVE apply_passes(_, _, _)
apply_passes(s, lo, hi) ==
    IF lo > hi THEN s
    ELSE IF lo = hi THEN re_sub(highlight_passes[lo], s)
    ELSE LET mid == (lo + hi) \div 2
         IN  CHOOSE r \in {apply_passes(half, mid + 1, hi) :
                              half \in {apply_passes(s, lo, mid)}} : TRUE

apply_syntax_highlighting(s) == apply_passes(html_escape(s), 1, Len(highlight_passes))

recognized_languages == {"java", "javascript", "js", "typescript", "ts"}

code_block_replace(lang, body) ==
    "<pre><code>"
    \o (IF lower(lang) \in recognized_languages
        THEN apply_syntax_highlighting(body)
        ELSE html_escape(body))
    \o "</code></pre>"

\* re.sub over the fence pattern with code_block_replace as the replacement
RECURSIVE process_code_blocks_from(_, _, _)
process_code_blocks_from(s, p, M) ==
    LET later == {q \in M : q >= p}
    IN  IF later = {} THEN SubSeq(s, p, Len(s))
        ELSE LET q == Min(later)
                 m == fence_match(s, q)
             IN  SubSeq(s, p, q - 1) \o code_block_replace(m.lang, m.body)
                 \o process_code_blocks_from(s, q + m.len, later)

process_code_blocks(s) ==
    process_code_blocks_from(s, 1, {q \in 1..Len(s) : fence_match(s, q).len > 0})

-----------------------------------------------------------------------------
(* _generate_anchor, _extract_title, _extract_sections                     *)

\* generate_anchor without the lowercasing
generate_anchor_keeping_case(text) ==
    LET kept == re_sub([kind |-> "char_not_in", chars |-> WordChars \cup SpaceChars \cup {"-"},
                        pre |-> "", post |-> ""], text)
    IN  re_sub([kind |-> "run_of", chars |-> SpaceChars \cup {"-"},
                pre |-> "-", post |-> ""], kept)

generate_anchor(text) ==
    LET kept == re_sub([kind |-> "char_not_in", chars |-> WordChars \cup SpaceChars \cup {"-"},
                        pre |-> "", post |-> ""], lower(text))
    IN  re_sub([kind |-> "run_of", chars |-> SpaceChars \cup {"-"},
                pre |-> "-", post |-> ""], kept)

\* re.search(r'^#\s+(.+)$', content, re.MULTILINE), then the filename fallback
extract_title(text, stem) ==
    LET M == {q \in 1..Len(text) : header_match(text, q, 1).len > 0}
    IN  IF M # {} THEN strip(header_match(text, Min(M), 1).text)
        ELSE replace(replace(stem, "-", " "), "_", " ")

\* re.finditer(r'^(#{1,4})\s+(.+)$', content, re.MULTILINE)
RECURSIVE extract_sections_from(_, _, _)
extract_sections_from(text, p, M) ==
    LET later == {q \in M : q >= p}
    IN  IF later = {} THEN << >>
        ELSE LET m == header_match(text, Min(later), 4)
             IN  << [title |-> strip(m.text),
                     anchor |-> generate_anchor(strip(m.text)),
                     level |-> m.level] >>
                 \o extract_sections_from(text, Min(later) + m.len, later)

extract_sections(text) ==
    extract_sections_from(text, 1, {q \in 1..Len(text) : header_match(text, q, 4).len > 0})

-----------------------------------------------------------------------------
(* The substitutions of _markdown_to_html                                  *)

\* str(level) for a heading level
level_str(level) == Ch("123456", level)

header_replace(m) ==
    "<h" \o level_str(m.level) \o " id=\"" \o generate_anchor(strip(m.text)) \o "\">"
    \o strip(m.text) \o "</h" \o level_str(m.level) \o ">"

\* re.sub(r'^(#{1,6})\s+(.+)$', header_replace, html, flags=re.MULTILINE)
RECURSIVE process_headers_from(_, _, _)
process_headers_from(s, p, M) ==
    LET later == {q \in M : q >= p}
    IN  IF later = {} THEN SubSeq(s, p, Len(s))
        ELSE LET q == Min(later)
                 m == header_match(s, q, 6)
             IN  SubSeq(s, p, q - 1) \o header_replace(m)
                 \o process_headers_from(s, q + m.len, later)

process_headers(s) ==
    process_headers_from(s, 1, {q \in 1..Len(s) : header_match(s, q, 6).len > 0})

\* \*\*(.+?)\*\*
bold_pattern ==
    [kind |-> "delim", open |-> "**", close |-> "**", min |-> 1, excl |-> {NL},
     whole |-> FALSE, pre |-> "<strong>", post |-> "</strong>"]

\* \*(.+?)\*
italic_star_pattern ==
    [kind |-> "delim", open |-> "*", close |-> "*", min |-> 1, excl |-> {NL},
     whole |-> FALSE, pre |-> "<em>", post |-> "</em>"]

\* _(.+?)_
italic_underscore_pattern ==
    [kind |-> "delim", open |-> "_", close |-> "_", min |-> 1, excl |-> {NL},
     whole |-> FALSE, pre |-> "<em>", post |-> "</em>"]

\* `([^`]+)`
inline_code_pattern ==
    [kind |-> "delim", open |-> BT, close |-> BT, min |-> 1, excl |-> {BT},
     whole |-> FALSE, pre |-> "<code>", post |-> "</code>"]

-----------------------------------------------------------------------------
(* _process_lists                                                          *)

\* re.match(r'^\s*[\*\-\+]\s+', line): the length of the match, 0 for none
ul_marker(line) ==
    LET a == space_run(line, 1)
        w == space_run(line, a + 2)
    IN  IF Ch(line, a + 1) \in {"*", "-", "+"} /\ w >= 1 THEN a + 1 + w ELSE 0

\* re.match(r'^\s*\d+\.\s+', line): the length of the match, 0 for none
ol_marker(line) ==
    LET a == space_run(line, 1)
        d == digit_run(line, a + 1)
        w == space_run(line, a + d + 2)
    IN  IF d >= 1 /\ Ch(line, a + d + 1) = "." /\ w >= 1 THEN a + d + 1 + w ELSE 0

list_item(line, n) == "<li>" \o SubSeq(line, n + 1, Len(line)) \o "</li>"

list_init == [result |-> << >>, in_ul |-> FALSE, in_ol |-> FALSE]

\* list_step whose ordered branch leaves in_ul as it was
list_step_keeping_in_ul(st, line) ==
    IF ul_marker(line) > 0
    THEN [result |-> st.result
                     \o (IF ~st.in_ul THEN <<"<ul>">> ELSE << >>)
                     \o (IF st.in_ol THEN <<"</ol>">> ELSE << >>)
                     \o <<list_item(line, ul_marker(line))>>,
          in_ul |-> TRUE, in_ol |-> FALSE]
    ELSE IF ol_marker(line) > 0
    THEN [result |-> st.result
                     \o (IF ~st.in_ol THEN <<"<ol>">> ELSE << >>)
                     \o (IF st.in_ul THEN <<"</ul>">> ELSE << >>)
                     \o <<list_item(line, ol_marker(line))>>,
          in_ul |-> st.in_ul, in_ol |-> TRUE]
    ELSE [result |-> st.result
                     \o (IF st.in_ul THEN <<"</ul>">> ELSE << >>)
                     \o (IF st.in_ol THEN <<"</ol>">> ELSE << >>)
                     \o <<line>>,
          in_ul |-> FALSE, in_ol |-> FALSE]

\* one iteration of the loop over the lines
list_step(st, line) ==
    IF ul_marker(line) > 0
    THEN [result |-> st.result
                     \o (IF ~st.in_ul THEN <<"<ul>">> ELSE << >>)
                     \o (IF st.in_ol THEN <<"</ol>">> ELSE << >>)
                     \o <<list_item(line, ul_marker(line))>>,
          in_ul |-> TRUE, in_ol |-> FALSE]
    ELSE IF ol_marker(line) > 0
    THEN [result |-> st.result
                     \o (IF ~st.in_ol THEN <<"<ol>">> ELSE << >>)
                     \o (IF st.in_ul THEN <<"</ul>">> ELSE << >>)
                     \o <<list_item(line, ol_marker(line))>>,
          in_ul |-> FALSE, in_ol |-> TRUE]
    ELSE [result |-> st.result
                     \o (IF st.in_ul THEN <<"</ul>">> ELSE << >>)
                     \o (IF st.in_ol THEN <<"</ol>">> ELSE << >>)
                     \o <<line>>,
          in_ul |-> FALSE, in_ol |-> FALSE]

\* list_finish that closes nothing
list_finish_leaving_open(st) == st.result

\* "Close any remaining lists"
list_finish(st) ==
    st.result \o (IF st.in_ul THEN <<"</ul>">> ELSE << >>)
              \o (IF st.in_ol THEN <<"</ol>">> ELSE << >>)

\* the state after the first n lines
RECURSIVE list_fold(_, _)
list_fold(ls, n) ==
    IF n = 0 THEN list_init
    ELSE CHOOSE r \in {list_step(st, ls[n]) : st \in {list_fold(ls, n - 1)}} : TRUE

process_lists(text) ==
    LET ls == split(text, NL) IN join(NL, list_finish(list_fold(ls, Len(ls))))

-----------------------------------------------------------------------------
(* _process_blockquotes                                                    *)

is_quote_line(line) == startswith(strip(line), ">")

\* re.sub(r'^\s*>\s?', '', line)
quote_content(line) ==
    LET a == space_run(line, 1)
        n == a + 1 + (IF IsSpace(Ch(line, a + 2)) THEN 1 ELSE 0)
    IN  IF Ch(line, a + 1) = ">" THEN SubSeq(line, n + 1, Len(line)) ELSE line

blockquote_init == [result |-> << >>, in_blockquote |-> FALSE]

\* blockquote_step that opens a quote on every quoted line
blockquote_step_reopening(st, line) ==
    IF is_quote_line(line)
    THEN [result |-> st.result
                     \o <<"<blockquote>">>
                     \o <<"<p>" \o quote_content(line) \o "</p>">>,
          in_blockquote |-> TRUE]
    ELSE [result |-> st.result
                     \o (IF st.in_blockquote THEN <<"</blockquote>">> ELSE << >>)
                     \o <<line>>,
          in_blockquote |-> FALSE]

blockquote_step(st, line) ==
    IF is_quote_line(line)
    THEN [result |-> st.result
                     \o (IF ~st.in_blockquote THEN <<"<blockquote>">> ELSE << >>)
                     \o <<"<p>" \o quote_content(line) \o "</p>">>,
          in_blockquote |-> TRUE]
    ELSE [result |-> st.result
                     \o (IF st.in_blockquote THEN <<"</blockquote>">> ELSE << >>)
                     \o <<line>>,
          in_blockquote |-> FALSE]

blockquote_finish(st) ==
    st.result \o (IF st.in_blockquote THEN <<"</blockquote>">> ELSE << >>)

RECURSIVE blockquote_fold(_, _)
blockquote_fold(ls, n) ==
    IF n = 0 THEN blockquote_init
    ELSE CHOOSE r \in {blockquote_step(st, ls[n]) : st \in {blockquote_fold(ls, n - 1)}} : TRUE

process_blockquotes(text) ==
    LET ls == split(text, NL)
    IN  join(NL, blockquote_finish(blockquote_fold(ls, Len(ls))))

-----------------------------------------------------------------------------
(* _convert_table and _process_tables                                      *)

\* row.strip() with one leading and one trailing pipe removed
strip_pipes(line) ==
    LET row == strip(line)
        r1 == IF startswith(row, "|") THEN SubSeq(row, 2, Len(row)) ELSE row
    IN  IF endswith(r1, "|") THEN SubSeq(r1, 1, Len(r1) - 1) ELSE r1

\* [cell.strip() for cell in row.split('|')]
row_cells(line) ==
    LET parts == split(strip_pipes(line), "|")
    IN  [i \in 1..Len(parts) |-> strip(parts[i])]

\* re.match(r'^\|?\s*:?-+:?\s*\|', line)
separator_match(line) ==
    LET a  == IF Ch(line, 1) = "|" THEN 1 ELSE 0
        w1 == space_run(line, a + 1)
        c1 == IF Ch(line, a + w1 + 1) = ":" THEN 1 ELSE 0
        h  == char_run(line, "-", a + w1 + c1 + 1)
        c2 == IF Ch(line, a + w1 + c1 + h + 1) = ":" THEN 1 ELSE 0
        w2 == space_run(line, a + w1 + c1 + h + c2 + 1)
    IN  h >= 1 /\ Ch(line, a + w1 + c1 + h + c2 + w2 + 1) = "|"

cell_alignment(cell) ==
    IF startswith(cell, ":") /\ endswith(cell, ":") THEN "center"
    ELSE IF endswith(cell, ":") THEN "right"
    ELSE "left"

\* lines 402-423: whether lines[1] is taken as the separator row
has_separator(tlines) == Len(tlines) > 1 /\ separator_match(tlines[2])

table_alignments(tlines) ==
    IF has_separator(tlines)
    THEN [i \in 1..Len(row_cells(tlines[2])) |-> cell_alignment(row_cells(tlines[2])[i])]
    ELSE [i \in 1..Len(row_cells(tlines[1])) |-> "left"]

\* separator_idx, as a count of the lines that are not body rows
separator_idx(tlines) == IF has_separator(tlines) THEN 2 ELSE 1

\* alignments[i] if i < len(alignments) else 'left'
column_align(alignments, i) == IF i <= Len(alignments) THEN alignments[i] ELSE "left"

th_line(align, header) == "<th style=\"text-align: " \o align \o ";\">" \o header \o "</th>"

td_line(align, cell) == "<td style=\"text-align: " \o align \o ";\">" \o cell \o "</td>"

table_row_lines(alignments, line) ==
    <<"<tr>">>
    \o [i \in 1..Len(row_cells(line)) |-> td_line(column_align(alignments, i), row_cells(line)[i])]
    \o <<"</tr>">>

RECURSIVE table_body_lines(_, _, _)
table_body_lines(alignments, tlines, k) ==
    IF k > Len(tlines) THEN << >>
    ELSE table_row_lines(alignments, tlines[k]) \o table_body_lines(alignments, tlines, k + 1)

\* the list html of _convert_table, for a run of at least 2 lines
convert_table_lines(tlines) ==
    LET headers == row_cells(tlines[1])
        alignments == table_alignments(tlines)
    IN  <<"<div class=\"table-wrapper\">", "<table>", "<colgroup>">>
        \o [i \in 1..Len(headers) |-> "<col/>"]
        \o <<"</colgroup>", "<thead>", "<tr>">>
        \o [i \in 1..Len(headers) |-> th_line(column_align(alignments, i), headers[i])]
        \o <<"</tr>", "</thead>", "<tbody>">>
        \o table_body_lines(alignments, tlines, separator_idx(tlines) + 1)
        \o <<"</tbody>", "</table>", "</div>">>

\* convert_table without the early return for fewer than 2 lines
convert_table_unguarded(tlines) == join(NL, convert_table_lines(tlines))

convert_table(tlines) ==
    IF Len(tlines) < 2 THEN join(NL, tlines) ELSE join(NL, convert_table_lines(tlines))

\* '|' in line and line.strip().startswith('|')
is_table_row(line) == contains(line, "|") /\ startswith(strip(line), "|")

table_init == [result |-> << >>, table_lines |-> << >>, in_table |-> FALSE]

\* table_step that keeps the converted run in table_lines
table_step_keeping_buffer(st, line) ==
    IF is_table_row(line)
    THEN [result |-> st.result,
          table_lines |-> (IF ~st.in_table THEN << >> ELSE st.table_lines) \o <<line>>,
          in_table |-> TRUE]
    ELSE [result |-> st.result
                     \o (IF st.in_table THEN <<convert_table(st.table_lines)>> ELSE << >>)
                     \o <<line>>,
          table_lines |-> st.table_lines,
          in_table |-> FALSE]

table_step(st, line) ==
    IF is_table_row(line)
    THEN [result |-> st.result,
          table_lines |-> (IF ~st.in_table THEN << >> ELSE st.table_lines) \o <<line>>,
          in_table |-> TRUE]
    ELSE [result |-> st.result
                     \o (IF st.in_table THEN <<convert_table(st.table_lines)>> ELSE << >>)
                     \o <<line>>,
          table_lines |-> IF st.in_table THEN << >> ELSE st.table_lines,
          in_table |-> FALSE]

\* "Handle table at end of file"
table_finish(st) ==
    st.result \o (IF st.in_table /\ st.table_lines # << >>
                  THEN <<convert_table(st.table_lines)>> ELSE << >>)

RECURSIVE table_fold(_, _)
table_fold(ls, n) ==
    IF n = 0 THEN table_init
    ELSE CHOOSE r \in {table_step(st, ls[n]) : st \in {table_fold(ls, n - 1)}} : TRUE

process_tables(text) ==
    LET ls == split(text, NL) IN join(NL, table_finish(table_fold(ls, Len(ls))))

-----------------------------------------------------------------------------
(* _process_paragraphs and _markdown_to_html                               *)

\* paragraph_line that wraps every line that is not blank
paragraph_line_wrapping_tags(line) ==
    IF strip(line) = "" THEN line
    ELSE "<p>" \o line \o "</p>"

paragraph_line(line) ==
    IF strip(line) = "" \/ startswith(strip(line), "<") THEN line
    ELSE "<p>" \o line \o "</p>"

process_paragraphs(text) ==
    LET ls == split(text, NL)
    IN  join(NL, [i \in 1..Len(ls) |-> paragraph_line(ls[i])])

\* the stages of _markdown_to_html, in the order it runs them
stage_names ==
    <<"code_blocks", "headers", "bold", "italic_star", "italic_underscore",
      "inline_code", "tables", "lists", "blockquotes", "paragraphs">>

stage(name, s) ==
    CASE name = "code_blocks" -> process_code_blocks(s)
      [] name = "headers" -> process_headers(s)
      [] name = "bold" -> re_sub(bold_pattern, s)
      [] name = "italic_star" -> re_sub(italic_star_pattern, s)
      [] name = "italic_underscore" -> re_sub(italic_underscore_pattern, s)
      [] name = "inline_code" -> re_sub(inline_code_pattern, s)
      [] name = "tables" -> process_tables(s)
      [] name = "lists" -> process_lists(s)
      [] name = "blockquotes" -> process_blockquotes(s)
      [] name = "paragraphs" -> process_paragraphs(s)

\* the text after the first n stages
RECURSIVE run_stages(_, _)
run_stages(s, n) ==
    IF n = 0 THEN s
    ELSE CHOOSE r \in {stage(stage_names[n], prev) : prev \in {run_stages(s, n - 1)}} : TRUE

markdown_to_html(text) == run_stages(text, Len(stage_names))

-----------------------------------------------------------------------------
(* The package documents                                                   *)

\* create_mimetype with a line break after the media type
create_mimetype_with_newline == "application/epub+zip\n"

create_mimetype == "application/epub+zip"

create_container_xml ==
    "<?xml version=\"1.0\" encoding=\"UTF-8\"?>\n"
    \o "<container version=\"1.0\" xmlns=\"urn:oasis:names:tc:opendocument:xmlns:container\">\n"
    \o "    <rootfiles>\n"
    \o "        <rootfile full-path=\"content.opf\" media-type=\"application/oebps-package+xml\"/>\n"
    \o "    </rootfiles>\n"
    \o "</container>\n"

\* self.md_file.stem.lower().replace(' ', '-')
identifier(stem) == replace(lower(stem), " ", "-")

\* The fields that _create_content_opf interpolates into its template
create_content_opf(ttl, stem, date, stamp) ==
    [title |-> ttl,
     identifier |-> identifier(stem) \o "-" \o date,
     date |-> date,
     description |-> "Generated from " \o stem \o ".md",
     modified |-> stamp \o "Z"]

\* section_nav_points with the play order advanced for every section
RECURSIVE section_nav_points_counting_all(_, _, _)
section_nav_points_counting_all(secs, i, play_order) ==
    IF i > Len(secs) THEN << >>
    ELSE IF secs[i].level <= 2
    THEN << [id |-> secs[i].anchor, playOrder |-> play_order + 1,
             text |-> secs[i].title, src |-> "content.html#" \o secs[i].anchor] >>
         \o section_nav_points_counting_all(secs, i + 1, play_order + 1)
    ELSE section_nav_points_counting_all(secs, i + 1, play_order + 1)

\* the loop "Add sections": the navigation points of sections[i..], the last
\* play order given out being play_order
RECURSIVE section_nav_points(_, _, _)
section_nav_points(secs, i, play_order) ==
    IF i > Len(secs) THEN << >>
    ELSE IF secs[i].level <= 2
    THEN << [id |-> secs[i].anchor, playOrder |-> play_order + 1,
             text |-> secs[i].title, src |-> "content.html#" \o secs[i].anchor] >>
         \o section_nav_points(secs, i + 1, play_order + 1)
    ELSE section_nav_points(secs, i + 1, play_order)

\* The fields that _create_toc_ncx interpolates into its template; nav_points
\* is the root navigation point followed by the points nested in it
create_toc_ncx(ttl, secs, stem) ==
    [uid |-> identifier(stem),
     doc_title |-> ttl,
     nav_points |-> << [id |-> "content", playOrder |-> 1, text |-> ttl,
                        src |-> "content.html"] >>
                    \o section_nav_points(secs, 1, 1)]

\* The fields that _create_content_html interpolates into its template
create_content_html(ttl, text) ==
    [title |-> ttl, style |-> "CSS_STYLES", body |-> markdown_to_html(text)]

-----------------------------------------------------------------------------
(* main, EpubConverter.__init__ and EpubConverter.convert                  *)

\* the longest input document, in lines
MaxDocLines == 3

\* the lines the input documents are made of
DocLines == {"# Top", "## Part one", "### Detail", "##### Deep", "some *text*"}

RECURSIVE LineSeqs(_, _)
LineSeqs(S, n) ==
    IF n = 0 THEN {<< >>}
    ELSE LineSeqs(S, n - 1)
         \cup {Append(ls, l) : ls \in {x \in LineSeqs(S, n - 1) : Len(x) = n - 1}, l \in S}

\* documents with a heading whose text has underscores or asterisks, and with
\* a heading line inside a code fence
LinkDocs ==
    {"# my_var_name",
     "## a *b* c",
     FENCE \o NL \o "# head" \o NL \o "rest" \o NL \o FENCE \o NL,
     FENCE \o "js" \o NL \o "x" \o NL \o "# head" \o NL \o FENCE \o NL,
     "# Top" \o NL \o FENCE \o NL \o "x" \o NL \o "# in" \o NL \o "y" \o NL \o FENCE \o NL}

Documents == {join(NL, ls) : ls \in LineSeqs(DocLines, MaxDocLines)} \cup LinkDocs

Stems == {"my-book_v2", "Notes"}

\* the value of the -o argument when it is given
OutputArg == "out.epub"

Dates == {"2024-05-01"}

Stamps == {"2024-05-01T10:00:00", "2024-05-02T00:00:01"}

IdleMain ==
    /\ input_exists = FALSE /\ file_text = "" /\ md_stem = "" /\ out_arg = FALSE
    /\ out_writable = FALSE /\ content = "" /\ title = "" /\ sections = << >>
    /\ output_file = "" /\ out_state = "absent" /\ default_compression = ""
    /\ archive = << >> /\ stdout = << >> /\ stderr = << >> /\ exit_status = -1

IdleLists == lines = << >> /\ idx = 0 /\ result = << >> /\ in_ul = FALSE /\ in_ol = FALSE

IdleHighlight == code = "" /\ pass = 0

IdlePipeline == html = "" /\ stage_no = 0

IdleTable == table_in = << >> /\ table_out = << >>

IdleAnchor == anchor_text = "" /\ anchor_out = ""

IdleBlockquote == in_blockquote = FALSE

IdleTableMachine == table_lines = << >> /\ in_table = FALSE

IdleMachines == IdleAnchor /\ IdleBlockquote /\ IdleTableMachine

Init ==
    /\ pc = "main"
    /\ input_exists \in BOOLEAN
    /\ file_text \in (IF input_exists THEN Documents ELSE {""})
    /\ md_stem \in Stems
    /\ out_arg \in BOOLEAN
    /\ out_writable \in BOOLEAN
    /\ out_state \in {"absent", "stale"}
    /\ content = "" /\ title = "" /\ sections = << >> /\ output_file = ""
    /\ default_compression = "" /\ archive = << >>
    /\ stdout = << >> /\ stderr = << >> /\ exit_status = -1
    /\ IdleLists /\ IdleHighlight /\ IdlePipeline /\ IdleTable
    /\ IdleMachines

others_unchanged ==
    UNCHANGED <<list_vars, highlight_vars, pipeline_vars, table_vars, machine_vars>>

inputs_unchanged == UNCHANGED <<input_exists, file_text, md_stem, out_arg, out_writable>>

\* Construct without the check that the input file exists
Construct_unchecked ==
    /\ pc = "main"
    /\ output_file' = (IF out_arg THEN OutputArg ELSE md_stem \o ".epub")
    /\ content' = file_text
    /\ title' = extract_title(file_text, md_stem)
    /\ sections' = extract_sections(file_text)
    /\ pc' = "convert"
    /\ UNCHANGED <<out_state, default_compression, archive, stdout, stderr, exit_status>>
    /\ inputs_unchanged /\ others_unchanged

\* EpubConverter.__init__ when the input file exists
Construct ==
    /\ pc = "main"
    /\ input_exists
    /\ output_file' = (IF out_arg THEN OutputArg ELSE md_stem \o ".epub")
    /\ content' = file_text
    /\ title' = extract_title(file_text, md_stem)
    /\ sections' = extract_sections(file_text)
    /\ pc' = "convert"
    /\ UNCHANGED <<out_state, default_compression, archive, stdout, stderr, exit_status>>
    /\ inputs_unchanged /\ others_unchanged

\* EpubConverter.__init__ raises FileNotFoundError; main catches it, prints
\* the error line and exits with status 1
ConstructFails ==
    /\ pc = "main"
    /\ ~input_exists
    /\ stderr' = Append(stderr, "Error: Markdown file not found: " \o md_stem \o ".md")
    /\ exit_status' = 1
    /\ pc' = "exited"
    /\ UNCHANGED <<content, title, sections, output_file, out_state,
                   default_compression, archive, stdout>>
    /\ inputs_unchanged /\ others_unchanged

\* OpenArchive with the compression argument left out (ZIP_STORED)
OpenArchive_stored ==
    /\ pc = "convert"
    /\ out_writable
    /\ stdout' = Append(stdout, "Converting " \o md_stem \o ".md to " \o output_file \o "...")
    /\ out_state' = "partial"
    /\ default_compression' = "ZIP_STORED"
    /\ archive' = << >>
    /\ pc' = "mimetype"
    /\ UNCHANGED <<content, title, sections, output_file, stderr, exit_status>>
    /\ inputs_unchanged /\ others_unchanged

\* convert: the first print and zipfile.ZipFile(self.output_file, 'w', ZIP_DEFLATED)
OpenArchive ==
    /\ pc = "convert"
    /\ out_writable
    /\ stdout' = Append(stdout, "Converting " \o md_stem \o ".md to " \o output_file \o "...")
    /\ out_state' = "partial"
    /\ default_compression' = "ZIP_DEFLATED"
    /\ archive' = << >>
    /\ pc' = "mimetype"
    /\ UNCHANGED <<content, title, sections, output_file, stderr, exit_status>>
    /\ inputs_unchanged /\ others_unchanged

\* convert: ZipFile cannot open the output path; main catches the exception
OpenArchiveFails ==
    /\ pc = "convert"
    /\ ~out_writable
    /\ stdout' = Append(stdout, "Converting " \o md_stem \o ".md to " \o output_file \o "...")
    /\ stderr' = Append(stderr, "Error: cannot open " \o output_file)
    /\ exit_status' = 1
    /\ pc' = "exited"
    /\ UNCHANGED <<content, title, sections, output_file, out_state,
                   default_compression, archive>>
    /\ inputs_unchanged /\ others_unchanged

\* ZipFile.writestr(name, data, compress_type): compress_type "" stands for
\* the omitted argument, which takes the compression of the archive
writestr(name, data, compress_type) ==
    archive' = Append(archive,
                      [name |-> name,
                       compress_type |-> (IF compress_type = "" THEN default_compression
                                          ELSE compress_type),
                       data |-> data])

write_frame(next_pc) ==
    /\ pc' = next_pc
    /\ UNCHANGED <<content, title, sections, output_file, out_state,
                   default_compression, stdout, stderr, exit_status>>
    /\ inputs_unchanged /\ others_unchanged

WriteMimetype ==
    /\ pc = "mimetype"
    /\ writestr("mimetype", create_mimetype, "ZIP_STORED")
    /\ write_frame("container")

WriteContainerXml ==
    /\ pc = "container"
    /\ writestr("META-INF/container.xml", create_container_xml, "")
    /\ write_frame("opf")

WriteContentOpf ==
    /\ pc = "opf"
    /\ \E date \in Dates, stamp \in Stamps :
          writestr("content.opf", create_content_opf(title, md_stem, date, stamp), "")
    /\ write_frame("ncx")

\* WriteTocNcx writing the content document instead
WriteTocNcx_wrong_member ==
    /\ pc = "ncx"
    /\ writestr("content.html", create_content_html(title, content), "")
    /\ write_frame("html")

WriteTocNcx ==
    /\ pc = "ncx"
    /\ writestr("toc.ncx", create_toc_ncx(title, sections, md_stem), "")
    /\ write_frame("html")

WriteContentHtml ==
    /\ pc = "html"
    /\ writestr("content.html", create_content_html(title, content), "")
    /\ write_frame("close")

\* the end of the with block, the second print, and the return of main
CloseArchive ==
    /\ pc = "close"
    /\ out_state' = "epub"
    /\ stdout' = Append(stdout, "Successfully created " \o output_file) \* after a check mark
    /\ exit_status' = 0
    /\ pc' = "done"
    /\ UNCHANGED <<content, title, sections, output_file, default_compression,
                   archive, stderr>>
    /\ inputs_unchanged /\ others_unchanged

Next ==
    \/ Construct
    \/ ConstructFails
    \/ OpenArchive
    \/ OpenArchiveFails
    \/ WriteMimetype
    \/ WriteContainerXml
    \/ WriteContentOpf
    \/ WriteTocNcx
    \/ WriteContentHtml
    \/ CloseArchive

Spec == Init /\ [][Next]_vars

-----------------------------------------------------------------------------
(* Claims about the archive and the command line                           *)

member_names == [i \in 1..Len(archive) |-> archive[i].name]

PackageMembers ==
    <<"mimetype", "META-INF/container.xml", "content.opf", "toc.ncx", "content.html">>

\* C1: convert writes exactly five archive members, in the order mimetype,
\* META-INF/container.xml, content.opf, toc.ncx, content.html: at every moment
\* the members written so far are the first ones of that list, in that order
\* (so none is written twice and no other is written), and when convert has
\* returned all five are there.
C1_FiveMembersInOrder ==
    /\ Len(archive) <= 5
    /\ member_names = SubSeq(PackageMembers, 1, Len(archive))
    /\ pc = "done" => Len(archive) = 5

C1_Witness == pc = "done" /\ member_names = PackageMembers /\ content # ""

\* C2: the mimetype member is the first member, it is the only one that is
\* stored, its content is the literal application/epub+zip with no newline
\* after it, and every other member is deflated.
C2_MimetypeStoredOthersDeflated ==
    \A i \in 1..Len(archive) :
        /\ (i = 1) <=> (archive[i].name = "mimetype")
        /\ (i = 1) <=> (archive[i].compress_type = "ZIP_STORED")
        /\ i = 1 => archive[i].data = "application/epub+zip"
        /\ i > 1 => archive[i].compress_type = "ZIP_DEFLATED"

C2_Witness ==
    /\ pc = "done"
    /\ archive[1].compress_type = "ZIP_STORED"
    /\ \A i \in 2..5 : archive[i].compress_type = "ZIP_DEFLATED"

\* C15, as stated: the content of the mimetype member is exactly 21 bytes
\* long.
C15_MimetypeIs21Bytes ==
    \A i \in 1..Len(archive) :
        archive[i].name = "mimetype" => Len(archive[i].data) = 21

\* C15, amended: the content of the mimetype member is exactly 20 bytes long,
\* the 20 ASCII characters of application/epub+zip with nothing after them.
C15_MimetypeIs20Bytes ==
    \A i \in 1..Len(archive) :
        archive[i].name = "mimetype" => Len(archive[i].data) = 20

C15_Witness ==
    /\ pc = "container"
    /\ Len(archive) = 1
    /\ archive[1].name = "mimetype"
    /\ archive[1].data = create_mimetype

level_at_most_2(sec) == sec.level <= 2

\* C9: in toc.ncx the root navigation point has play order 1, and exactly the
\* outline entries of level <= 2 get a navigation point, in document order,
\* with play orders 2, 3, ... without gap or repeat; entries of level 3 or 4
\* get no navigation point and use up no play order.
C9_PlayOrder ==
    Len(archive) >= 4 =>
        LET nav == archive[4].data.nav_points
            toc == SelectSeq(sections, level_at_most_2)
        IN  /\ Len(nav) = 1 + Len(toc)
            /\ nav[1].playOrder = 1
            /\ nav[1].src = "content.html"
            /\ \A k \in 1..Len(toc) :
                  /\ nav[k + 1].playOrder = k + 1
                  /\ nav[k + 1].id = toc[k].anchor
                  /\ nav[k + 1].text = toc[k].title
                  /\ nav[k + 1].src = "content.html#" \o toc[k].anchor

\* a level-3 entry between two entries that get a navigation point
C9_Witness ==
    /\ Len(archive) >= 4
    /\ Len(sections) = 3
    /\ sections[1].level = 1 /\ sections[2].level = 3 /\ sections[3].level = 2
    /\ Len(archive[4].data.nav_points) = 3
    /\ archive[4].data.nav_points[3].playOrder = 3

\* C10: when the input path does not exist the failure is raised at
\* construction: the process only ever is at its start or exited, nothing of
\* the document is read, no archive is opened and no member written, the
\* file at the output path is never changed, and at exit one error line has
\* been printed and the exit status is 1.
C10_MissingInputFailsAtConstruction ==
    /\ [](~input_exists =>
            /\ pc \in {"main", "exited"}
            /\ content = "" /\ sections = << >> /\ archive = << >>
            /\ default_compression = ""
            /\ out_state \in {"absent", "stale"}
            /\ stdout = << >>
            /\ pc = "exited" => (exit_status = 1 /\ Len(stderr) = 1))
    /\ [][~input_exists => out_state' = out_state]_vars

C10_Witness == ~input_exists /\ pc = "exited" /\ exit_status = 1 /\ out_state = "stale"

\* the anchor that a navigation point of toc.ncx links to
link_anchor(src) == SubSeq(src, Len("content.html#") + 1, Len(src))

\* the body of content.html has a heading element whose id is anchor
has_heading_with_id(body, anchor) ==
    \E level \in 1..6 :
        contains(body, "<h" \o level_str(level) \o " id=\"" \o anchor \o "\">")

\* C22: every table-of-contents link resolves: for every navigation point of
\* toc.ncx whose target is content.html#anchor, content.html has a heading
\* element whose id attribute is exactly that anchor.
C22_TocLinksResolve ==
    Len(archive) >= 5 =>
        LET nav == archive[4].data.nav_points
            body == archive[5].data.body
        IN  \A k \in 1..Len(nav) :
                startswith(nav[k].src, "content.html#")
                    => has_heading_with_id(body, link_anchor(nav[k].src))

-----------------------------------------------------------------------------
(* _extract_title and _extract_sections, as __init__ calls them            *)

\* the longest document of the extraction, in lines
MaxOutlineLines == 3

\* the lines the documents of the extraction are made of
OutlineLines ==
    {"# Top", "## Part one", "#### Four", "##### Deep", "#", "#nospace", "text"}

OutlineDocs == {join(NL, ls) : ls \in LineSeqs(OutlineLines, MaxOutlineLines)}

InitExtract ==
    /\ pc = "extract_title"
    /\ content \in OutlineDocs
    /\ md_stem \in Stems
    /\ title = "" /\ sections = << >>
    /\ input_exists = TRUE /\ file_text = content /\ out_arg = FALSE
    /\ out_writable = FALSE /\ output_file = "" /\ out_state = "absent"
    /\ default_compression = "" /\ archive = << >>
    /\ stdout = << >> /\ stderr = << >> /\ exit_status = -1
    /\ IdleLists /\ IdleHighlight /\ IdlePipeline /\ IdleTable
    /\ IdleMachines

\* self.title = self._extract_title()
ExtractTitle ==
    /\ pc = "extract_title"
    /\ title' = extract_title(content, md_stem)
    /\ pc' = "extract_sections"
    /\ UNCHANGED <<content, sections, output_file, out_state, default_compression,
                   archive, stdout, stderr, exit_status>>
    /\ inputs_unchanged /\ others_unchanged

\* self.sections = self._extract_sections()
ExtractSections ==
    /\ pc = "extract_sections"
    /\ sections' = extract_sections(content)
    /\ pc' = "extract_done"
    /\ UNCHANGED <<content, title, output_file, out_state, default_compression,
                   archive, stdout, stderr, exit_status>>
    /\ inputs_unchanged /\ others_unchanged

NextExtract == ExtractTitle \/ ExtractSections

SpecExtract == InitExtract /\ [][NextExtract]_vars

\* A heading line, as the claims define it: leading # characters, then
\* whitespace, then text, all on the one line.
leading_hashes(line) == char_run(line, "#", 1)

heading_text(line) == strip(SubSeq(line, leading_hashes(line) + 1, Len(line)))

is_heading_line(line) ==
    /\ leading_hashes(line) >= 1
    /\ IsSpace(Ch(line, leading_hashes(line) + 1))
    /\ heading_text(line) # ""

\* C12: the title is the text of the first level-1 heading line of the
\* document, wherever it occurs; only when the document has no such line is
\* the title the filename stem with hyphens and underscores replaced by
\* spaces.
C12_TitleIsFirstLevel1Heading ==
    pc \in {"extract_sections", "extract_done"} =>
        LET ls == split(content, NL)
            h1 == {i \in 1..Len(ls) : is_heading_line(ls[i]) /\ leading_hashes(ls[i]) = 1}
        IN  title = IF h1 # {} THEN heading_text(ls[Min(h1)])
                    ELSE replace(replace(md_stem, "-", " "), "_", " ")

\* the outline entries of the lines ls[i..], as the claim defines them
RECURSIVE outline_entries(_, _)
outline_entries(ls, i) ==
    IF i > Len(ls) THEN << >>
    ELSE (IF is_heading_line(ls[i]) /\ leading_hashes(ls[i]) <= 4
          THEN << [title |-> heading_text(ls[i]),
                   anchor |-> generate_anchor(heading_text(ls[i])),
                   level |-> leading_hashes(ls[i])] >>
          ELSE << >>)
         \o outline_entries(ls, i + 1)

\* C13: the outline has one entry for every heading line of level 1 to 4, in
\* document order, and no other entry; each entry carries the heading text,
\* the anchor derived from that text and the number of leading # characters
\* as its level.
C13_OutlineIsHeadingsLevel1To4 ==
    pc = "extract_done" => sections = outline_entries(split(content, NL), 1)

-----------------------------------------------------------------------------
(* _generate_anchor                                                        *)

\* the longest generated heading text, in characters
MaxAnchorLen == 4

\* the characters the generated heading texts are made of
AnchorChars == {"A", "b", "1", "_", "-", " ", "\t", "!"}

RECURSIVE Texts(_, _)
Texts(S, n) ==
    IF n = 0 THEN {""}
    ELSE Texts(S, n - 1)
         \cup {t \o c : t \in {x \in Texts(S, n - 1) : Len(x) = n - 1}, c \in S}

AnchorTexts ==
    Texts(AnchorChars, MaxAnchorLen) \cup {"Hello, World", "Getting Started!", "a - b"}

InitAnchor ==
    /\ pc = "generate_anchor"
    /\ anchor_text \in AnchorTexts
    /\ anchor_out = ""
    /\ IdleMain /\ IdleLists /\ IdleHighlight /\ IdlePipeline /\ IdleTable
    /\ IdleBlockquote /\ IdleTableMachine

\* the call _generate_anchor(text)
GenerateAnchor ==
    /\ pc = "generate_anchor"
    /\ anchor_out' = generate_anchor(anchor_text)
    /\ pc' = "generate_anchor_done"
    /\ UNCHANGED <<anchor_text, main_vars, list_vars, highlight_vars, pipeline_vars,
                   table_vars, blockquote_vars, table_machine_vars>>

NextAnchor == GenerateAnchor

SpecAnchor == InitAnchor /\ [][NextAnchor]_vars

\* s[i..] without the characters that are not in keep
RECURSIVE only_chars(_, _, _)
only_chars(s, keep, i) ==
    IF i > Len(s) THEN ""
    ELSE (IF Ch(s, i) \in keep THEN Ch(s, i) ELSE "") \o only_chars(s, keep, i + 1)

\* s[i..] with a hyphen for the first character of every maximal run of
\* whitespace and hyphens, and nothing for the other characters of the run
RECURSIVE runs_to_hyphen(_, _)
runs_to_hyphen(s, i) ==
    IF i > Len(s) THEN ""
    ELSE (IF Ch(s, i) \notin SpaceChars \cup {"-"} THEN Ch(s, i)
          ELSE IF Ch(s, i - 1) \in SpaceChars \cup {"-"} THEN ""
          ELSE "-")
         \o runs_to_hyphen(s, i + 1)

\* C14: the anchor is a pure function of the heading text: the text
\* lowercased, without the characters that are neither word characters nor
\* whitespace nor hyphens, and with every maximal run of whitespace and
\* hyphens replaced by one hyphen; so it has no uppercase letter, no
\* whitespace and no two hyphens in a row, and "Hello, World" gives
\* "hello-world".
C14_AnchorOfText ==
    pc = "generate_anchor_done" =>
        /\ anchor_out =
               runs_to_hyphen(only_chars(lower(anchor_text),
                                         WordChars \cup SpaceChars \cup {"-"}, 1), 1)
        /\ \A i \in 1..Len(anchor_out) :
               Ch(anchor_out, i) \in {Ch(LowerLetters, k) : k \in 1..Len(LowerLetters)}
                                      \cup DigitChars \cup {"_", "-"}
        /\ ~contains(anchor_out, "--")
        /\ anchor_text = "Hello, World" => anchor_out = "hello-world"

C14_Witness ==
    /\ pc = "generate_anchor_done"
    /\ anchor_text = "Hello, World"
    /\ anchor_out = "hello-world"

-----------------------------------------------------------------------------
(* _process_lists, line by line                                            *)

\* the longest input of the list machine, in lines
MaxListLines == 4

\* the lines the inputs of the list machine are made of
ListLines == {"- a", "* b", "1. c", "text", ""}

InitLists ==
    /\ pc = "lists"
    /\ lines \in LineSeqs(ListLines, MaxListLines)
    /\ idx = 0 /\ result = << >> /\ in_ul = FALSE /\ in_ol = FALSE
    /\ IdleMain /\ IdleHighlight /\ IdlePipeline /\ IdleTable
    /\ IdleMachines

\* one iteration of "for line in lines"
ListLine ==
    /\ pc = "lists"
    /\ idx < Len(lines)
    /\ LET st == list_step([result |-> result, in_ul |-> in_ul, in_ol |-> in_ol],
                           lines[idx + 1])
       IN  /\ result' = st.result
           /\ in_ul' = st.in_ul
           /\ in_ol' = st.in_ol
    /\ idx' = idx + 1
    /\ UNCHANGED <<pc, lines, main_vars, highlight_vars, pipeline_vars, table_vars, machine_vars>>

\* the end of the loop: "Close any remaining lists"
ListClose ==
    /\ pc = "lists"
    /\ idx = Len(lines)
    /\ result' = list_finish([result |-> result, in_ul |-> in_ul, in_ol |-> in_ol])
    /\ pc' = "lists_done"
    /\ UNCHANGED <<lines, idx, in_ul, in_ol, main_vars, highlight_vars,
                   pipeline_vars, table_vars, machine_vars>>

NextLists == ListLine \/ ListClose

SpecLists == InitLists /\ [][NextLists]_vars

\* the number of lines of out[1..n] that are equal to tag
count_lines(out, n, tag) == Cardinality({k \in 1..n : out[k] = tag})

\* the number of tag elements open after out[1..n]
open_count(out, n, tag) ==
    count_lines(out, n, "<" \o tag \o ">") - count_lines(out, n, "</" \o tag \o ">")

\* C4: whenever a line of one list type directly follows a line of the other
\* type, the closing tag of the previous list is emitted before the opening
\* tag of the new list, so that the two list elements never overlap: at no
\* point of the output are a <ul> and an <ol> both open, and no list is open
\* at the end of the output; in particular three unordered lines followed by
\* one ordered line give <ul>, three <li>, </ul>, <ol>, one <li>, </ol>.
C4_ListsNeverOverlap ==
    /\ \A n \in 1..Len(result) :
          ~(open_count(result, n, "ul") > 0 /\ open_count(result, n, "ol") > 0)
    /\ pc = "lists_done" =>
          /\ open_count(result, Len(result), "ul") = 0
          /\ open_count(result, Len(result), "ol") = 0
          /\ lines = <<"- a", "- a", "- a", "1. c">> =>
                result = <<"<ul>", "<li>a</li>", "<li>a</li>", "<li>a</li>", "</ul>",
                           "<ol>", "<li>c</li>", "</ol>">>

\* C16: every list the list machine opens is closed.  Right after a line that
\* matches neither marker pattern no list is open, and after the end of the
\* input the output has as many </ul> as <ul> and as many </ol> as <ol>.
C16_EveryListIsClosed ==
    /\ (pc = "lists" /\ idx >= 1 /\ lines[idx] \in {"text", ""}) =>
           /\ ~in_ul /\ ~in_ol
           /\ open_count(result, Len(result), "ul") = 0
           /\ open_count(result, Len(result), "ol") = 0
    /\ pc = "lists_done" =>
           /\ open_count(result, Len(result), "ul") = 0
           /\ open_count(result, Len(result), "ol") = 0

C16_Witness ==
    /\ pc = "lists_done"
    /\ in_ul
    /\ count_lines(result, Len(result), "<ul>") = 2
    /\ count_lines(result, Len(result), "</ul>") = 2
    /\ result[Len(result)] = "</ul>"

\* C20: in the list machine the flags in_ul and in_ol are never both true, so
\* the machine is in exactly one of the states none (both false), in-unordered
\* and in-ordered.
C20_ListFlagsExclusive ==
    pc \in {"lists", "lists_done"} => ~(in_ul /\ in_ol)

C20_Witness ==
    /\ pc = "lists"
    /\ idx = 2
    /\ lines[1] = "- a" /\ lines[2] = "1. c"
    /\ in_ol /\ ~in_ul

-----------------------------------------------------------------------------
(* _process_blockquotes, line by line                                      *)

\* the longest input of the blockquote machine, in lines
MaxQuoteLines == 4

\* the lines the inputs of the blockquote machine are made of
QuoteLines == {"> a", ">b ", "  >  c", "text", ""}

InitBlockquotes ==
    /\ pc = "blockquotes"
    /\ lines \in LineSeqs(QuoteLines, MaxQuoteLines)
    /\ idx = 0 /\ result = << >> /\ in_blockquote = FALSE
    /\ in_ul = FALSE /\ in_ol = FALSE
    /\ IdleMain /\ IdleHighlight /\ IdlePipeline /\ IdleTable
    /\ IdleAnchor /\ IdleTableMachine

\* one iteration of "for line in lines"
BlockquoteLine ==
    /\ pc = "blockquotes"
    /\ idx < Len(lines)
    /\ LET st == blockquote_step([result |-> result, in_blockquote |-> in_blockquote],
                                 lines[idx + 1])
       IN  /\ result' = st.result
           /\ in_blockquote' = st.in_blockquote
    /\ idx' = idx + 1
    /\ UNCHANGED <<pc, lines, in_ul, in_ol, main_vars, highlight_vars, pipeline_vars,
                   table_vars, anchor_vars, table_machine_vars>>

\* the end of the loop: "if in_blockquote"
BlockquoteClose ==
    /\ pc = "blockquotes"
    /\ idx = Len(lines)
    /\ result' = blockquote_finish([result |-> result, in_blockquote |-> in_blockquote])
    /\ pc' = "blockquotes_done"
    /\ UNCHANGED <<lines, idx, in_ul, in_ol, in_blockquote, main_vars, highlight_vars,
                   pipeline_vars, table_vars, anchor_vars, table_machine_vars>>

NextBlockquotes == BlockquoteLine \/ BlockquoteClose

SpecBlockquotes == InitBlockquotes /\ [][NextBlockquotes]_vars

\* a line whose trimmed form starts with >
starts_quote(line) == Ch(line, space_run(line, 1) + 1) = ">"

\* the line without its > marker and without one space after the marker
without_marker(line) ==
    LET rest == SubSeq(line, space_run(line, 1) + 2, Len(line))
    IN  IF Ch(rest, 1) = " " THEN SubSeq(rest, 2, Len(rest)) ELSE rest

\* C17: the blockquote machine emits <blockquote> and </blockquote> strictly
\* alternating, starting with an opening tag, never nested, and balanced at
\* the end of the input.  A line whose trimmed form starts with > opens a
\* quote only if none is open and is emitted as a paragraph of the line
\* without the marker and without one space after it; a line that does not
\* match is emitted as it is, right after the closing tag if a quote was open.
C17_BlockquotesAlternate ==
    pc \in {"blockquotes", "blockquotes_done"} =>
        /\ \A n \in 1..Len(result) : open_count(result, n, "blockquote") \in {0, 1}
        /\ pc = "blockquotes" =>
               (in_blockquote <=> open_count(result, Len(result), "blockquote") = 1)
        /\ pc = "blockquotes_done" => open_count(result, Len(result), "blockquote") = 0
        /\ (pc = "blockquotes" /\ idx >= 1) =>
               LET line == lines[idx]
                   n == Len(result)
                   quote_was_open == idx >= 2 /\ starts_quote(lines[idx - 1])
               IN  IF starts_quote(line)
                   THEN /\ result[n] = "<p>" \o without_marker(line) \o "</p>"
                        /\ (result[n - 1] = "<blockquote>") <=> ~quote_was_open
                        /\ line = "  >  c" => result[n] = "<p> c</p>"
                   ELSE /\ result[n] = line
                        /\ quote_was_open => result[n - 1] = "</blockquote>"

C17_Witness ==
    /\ pc = "blockquotes_done"
    /\ lines = <<"> a", "  >  c", "text", ">b ">>
    /\ result = <<"<blockquote>", "<p>a</p>", "<p> c</p>", "</blockquote>", "text",
                  "<blockquote>", "<p>b </p>", "</blockquote>">>

-----------------------------------------------------------------------------
(* _process_tables, line by line                                           *)

\* the longest input of the table machine, in lines
MaxTableLines == 4

\* the lines the inputs of the table machine are made of
TableMachineLines == {"|a|b|", "|-|-|", "  | x |", "text", ""}

InitTables ==
    /\ pc = "tables"
    /\ lines \in LineSeqs(TableMachineLines, MaxTableLines)
    /\ idx = 0 /\ result = << >> /\ table_lines = << >> /\ in_table = FALSE
    /\ in_ul = FALSE /\ in_ol = FALSE
    /\ IdleMain /\ IdleHighlight /\ IdlePipeline /\ IdleTable
    /\ IdleAnchor /\ IdleBlockquote

\* one iteration of "for i, line in enumerate(lines)"
TableLine ==
    /\ pc = "tables"
    /\ idx < Len(lines)
    /\ LET st == table_step([result |-> result, table_lines |-> table_lines,
                             in_table |-> in_table], lines[idx + 1])
       IN  /\ result' = st.result
           /\ table_lines' = st.table_lines
           /\ in_table' = st.in_table
    /\ idx' = idx + 1
    /\ UNCHANGED <<pc, lines, in_ul, in_ol, main_vars, highlight_vars, pipeline_vars,
                   table_vars, anchor_vars, blockquote_vars>>

\* the end of the loop: "Handle table at end of file"
TableClose ==
    /\ pc = "tables"
    /\ idx = Len(lines)
    /\ result' = table_finish([result |-> result, table_lines |-> table_lines,
                               in_table |-> in_table])
    /\ pc' = "tables_done"
    /\ UNCHANGED <<lines, idx, in_ul, in_ol, table_lines, in_table, main_vars,
                   highlight_vars, pipeline_vars, table_vars, anchor_vars,
                   blockquote_vars>>

NextTables == TableLine \/ TableClose

SpecTables == InitTables /\ [][NextTables]_vars

\* a pipe-prefixed line
starts_pipe(line) == Ch(line, space_run(line, 1) + 1) = "|"

\* line i of ls is a table run of its own: the lines around it are no table
\* lines
single_line_run(ls, i) ==
    /\ starts_pipe(ls[i])
    /\ i > 1 => ~starts_pipe(ls[i - 1])
    /\ i < Len(ls) => ~starts_pipe(ls[i + 1])

\* C19: a table run of a single line is emitted by the table machine as the
\* literal line, with no table markup: when the line after it has been
\* processed the output ends with the two lines as they are, when it is the
\* last line of the input the output ends with it, and an input whose runs
\* are all single lines is emitted unchanged.
C19_ShortRunUnmodified ==
    /\ (pc = "tables" /\ idx >= 2 /\ single_line_run(lines, idx - 1)) =>
           /\ result[Len(result) - 1] = lines[idx - 1]
           /\ result[Len(result)] = lines[idx]
    /\ (pc = "tables_done" /\ Len(lines) >= 1 /\ single_line_run(lines, Len(lines))) =>
           result[Len(result)] = lines[Len(lines)]
    /\ (pc = "tables_done"
        /\ \A i \in 1..Len(lines) : starts_pipe(lines[i]) => single_line_run(lines, i)) =>
           result = lines

C19_Witness ==
    /\ pc = "tables_done"
    /\ lines = <<"text", "|a|b|", "text", "  | x |">>
    /\ result = lines

\* the number of pipe-prefixed lines at the end of ls[1..n]
RECURSIVE pending_run(_, _)
pending_run(ls, n) ==
    IF n >= 1 /\ starts_pipe(ls[n]) THEN 1 + pending_run(ls, n - 1) ELSE 0

\* What the claim expects for the lines ls[i..n]: every line that is not
\* pipe-prefixed as it is, and every maximal run of pipe-prefixed lines as
\* one element, the conversion of the run, in the place of the run.
RECURSIVE expected_table_output(_, _, _)
expected_table_output(ls, i, n) ==
    IF i > n THEN << >>
    ELSE IF ~starts_pipe(ls[i]) THEN <<ls[i]>> \o expected_table_output(ls, i + 1, n)
    ELSE LET stops == {j \in i..n : ~starts_pipe(ls[j])}
             last == IF stops = {} THEN n ELSE Min(stops) - 1
         IN  <<convert_table(SubSeq(ls, i, last))>>
             \o expected_table_output(ls, last + 1, n)

\* C21: the table machine neither loses, duplicates nor reorders lines.  After
\* each line in_table is true exactly when table_lines is not empty, and
\* table_lines is the run of table lines the input read so far ends with; the
\* output so far is, in the order of the input, every non-table line as it is
\* and every finished run converted once in the place of the run; the run
\* that is pending at the end of the input is converted there.
C21_TableMachineKeepsLines ==
    /\ pc = "tables" =>
           /\ in_table <=> table_lines # << >>
           /\ table_lines = SubSeq(lines, idx - pending_run(lines, idx) + 1, idx)
           /\ result = expected_table_output(lines, 1, idx - pending_run(lines, idx))
    /\ pc = "tables_done" => result = expected_table_output(lines, 1, Len(lines))

C21_Witness ==
    /\ pc = "tables_done"
    /\ lines = <<"|a|b|", "|-|-|", "text", "  | x |">>
    /\ Len(result) = 3
    /\ result[1] = convert_table(<<"|a|b|", "|-|-|">>)
    /\ result[2] = "text"
    /\ result[3] = "  | x |"

-----------------------------------------------------------------------------
(* _apply_syntax_highlighting, substitution by substitution                *)

\* the code bodies given to the highlighter
CodeBodies ==
    {"// x", "/* a */ b", "s = \"text\";", "@Override", "x = 42;", "if (a < b) return;",
     "String s;", "run(1)", "a & b", "plain"}

InitHighlight ==
    /\ pc = "highlight_escape"
    /\ code \in CodeBodies
    /\ pass = 0
    /\ IdleMain /\ IdleLists /\ IdlePipeline /\ IdleTable
    /\ IdleMachines

\* "Escape HTML first"
HighlightEscape ==
    /\ pc = "highlight_escape"
    /\ code' = html_escape(code)
    /\ pc' = "highlight"
    /\ UNCHANGED <<pass, main_vars, list_vars, pipeline_vars, table_vars, machine_vars>>

\* the next re.sub of the function
HighlightPass ==
    /\ pc = "highlight"
    /\ pass < Len(highlight_passes)
    /\ code' = re_sub(highlight_passes[pass + 1], code)
    /\ pass' = pass + 1
    /\ UNCHANGED <<pc, main_vars, list_vars, pipeline_vars, table_vars, machine_vars>>

\* return code
HighlightReturn ==
    /\ pc = "highlight"
    /\ pass = Len(highlight_passes)
    /\ pc' = "highlight_done"
    /\ UNCHANGED <<code, pass, main_vars, list_vars, pipeline_vars, table_vars, machine_vars>>

NextHighlight == HighlightEscape \/ HighlightPass \/ HighlightReturn

SpecHighlight == InitHighlight /\ [][NextHighlight]_vars

SpanCategories == {"comment", "string", "annotation", "number", "keyword", "type", "method"}

\* Every < of s starts an intact tag of the highlighter.  (The escaped code
\* has no < of its own, so every < comes from an inserted tag.)
spans_intact(s) ==
    \A i \in 1..Len(s) :
        Ch(s, i) = "<" =>
            \/ StartsWithAt(s, i, span_close)
            \/ \E cls \in SpanCategories : StartsWithAt(s, i, span_open(cls))

\* the number of occurrences of p in s
occurrences(s, p) == Cardinality({i \in 1..Len(s) : StartsWithAt(s, i, p)})

\* C5: every category span inserted by one pass is still an intact, properly
\* closed <span class="..."> element after all later passes have run: once the
\* code is escaped, after every pass each < of the code starts an intact
\* opening or closing span tag, and there are as many closing as opening tags.
C5_SpansStayIntact ==
    pc \in {"highlight", "highlight_done"} =>
        /\ spans_intact(code)
        /\ occurrences(code, "<span ") = occurrences(code, span_close)

-----------------------------------------------------------------------------
(* _markdown_to_html, stage by stage                                       *)

\* the language tags, the bodies and the surroundings of the fenced blocks
FenceTags == {"", "js", "JAVA", "python", "c++"}

FenceBodies == {"a<b", "x & y > z", "one\n- two", "# head\nrest", "*x* y", "if (a) return;"}

Prologues == {"", "intro\n"}

fenced(tag, body) == FENCE \o tag \o NL \o body \o NL \o FENCE \o NL

FenceDocs ==
    {pre \o fenced(tag, body) : pre \in Prologues, tag \in FenceTags, body \in FenceBodies}
    \cup {FENCE \o NL \o FENCE \o NL \o "text" \o NL \o fenced("js", "a<b"),
          fenced("java", "int x;") \o "between" \o NL \o fenced("", "a > b"),
          "no fence at all"}

\* the longest document of block lines, in lines
MaxBlockLines == 3

\* the lines the documents of tables, lists and quotes are made of
BlockLines == {"|a|b|", "|-|-|", "- x", "1. y", "> q", "text"}

BlockDocs == {join(NL, ls) : ls \in LineSeqs(BlockLines, MaxBlockLines)}

InitPipeline ==
    /\ pc = "markdown_to_html"
    /\ content \in FenceDocs \cup BlockDocs
    /\ html = content
    /\ stage_no = 0
    /\ input_exists = FALSE /\ file_text = "" /\ md_stem = "" /\ out_arg = FALSE
    /\ out_writable = FALSE /\ title = "" /\ sections = << >>
    /\ output_file = "" /\ out_state = "absent" /\ default_compression = ""
    /\ archive = << >> /\ stdout = << >> /\ stderr = << >> /\ exit_status = -1
    /\ IdleLists /\ IdleHighlight /\ IdleTable
    /\ IdleMachines

\* the k-th statement "html = ..." of _markdown_to_html
StageAction(k) ==
    /\ pc = "markdown_to_html"
    /\ stage_no = k - 1
    /\ html' = stage(stage_names[k], html)
    /\ stage_no' = k
    /\ UNCHANGED <<pc, main_vars, list_vars, highlight_vars, table_vars, machine_vars>>

CodeBlocksStage == StageAction(1)

HeadersStage == StageAction(2)

BoldStage == StageAction(3)

ItalicStarStage == StageAction(4)

ItalicUnderscoreStage == StageAction(5)

InlineCodeStage == StageAction(6)

TablesStage == StageAction(7)

ListsStage == StageAction(8)

BlockquotesStage == StageAction(9)

ParagraphsStage == StageAction(10)

\* return html
PipelineReturn ==
    /\ pc = "markdown_to_html"
    /\ stage_no = Len(stage_names)
    /\ pc' = "markdown_to_html_done"
    /\ UNCHANGED <<main_vars, list_vars, highlight_vars, pipeline_vars, table_vars, machine_vars>>

NextPipeline ==
    \/ CodeBlocksStage
    \/ HeadersStage
    \/ BoldStage
    \/ ItalicStarStage
    \/ ItalicUnderscoreStage
    \/ InlineCodeStage
    \/ TablesStage
    \/ ListsStage
    \/ BlockquotesStage
    \/ ParagraphsStage
    \/ PipelineReturn

SpecPipeline == InitPipeline /\ [][NextPipeline]_vars

\* the texts that code_block_replace returns for the fences of text, in order
RECURSIVE emitted_code_blocks_from(_, _, _)
emitted_code_blocks_from(s, p, M) ==
    LET later == {q \in M : q >= p}
    IN  IF later = {} THEN << >>
        ELSE LET m == fence_match(s, Min(later))
             IN  <<code_block_replace(m.lang, m.body)>>
                 \o emitted_code_blocks_from(s, Min(later) + m.len, later)

emitted_code_blocks(s) ==
    emitted_code_blocks_from(s, 1, {q \in 1..Len(s) : fence_match(s, q).len > 0})

\* C3: the content of a fenced code block is opaque to every later stage:
\* what the code-block stage emitted for a fence is, after each of the
\* heading, inline, table, list, blockquote and paragraph stages, still in
\* the text exactly as it was emitted.
C3_CodeBlocksOpaque ==
    stage_no >= 1 =>
        \A k \in 1..Len(emitted_code_blocks(content)) :
            contains(html, emitted_code_blocks(content)[k])

\* The bodies of the fenced code blocks of a document, as the claim defines
\* them: a line of three backquotes optionally followed by a language tag,
\* the content lines, and a closing line of three backquotes.
RECURSIVE fenced_bodies(_, _)
fenced_bodies(ls, i) ==
    IF i > Len(ls) THEN << >>
    ELSE IF startswith(ls[i], FENCE)
    THEN LET closing == {j \in (i + 1)..Len(ls) : ls[j] = FENCE}
         IN  IF closing = {} THEN << >>
             ELSE <<join(NL, SubSeq(ls, i + 1, Min(closing) - 1))>>
                  \o fenced_bodies(ls, Min(closing) + 1)
    ELSE fenced_bodies(ls, i + 1)

RECURSIVE raw_count(_, _)
raw_count(bodies, c) ==
    IF bodies = << >> THEN 0
    ELSE occurrences(Head(bodies), c) + raw_count(Tail(bodies), c)

\* C6: for every fenced code block of the input, every raw &, < and > of the
\* block body is HTML-escaped in the output, whatever the language tag is:
\* from the code-block stage on, the text has at least as many &amp;, &lt;
\* and &gt; as the bodies of the fenced blocks have &, < and >.
C6_FenceBodiesEscaped ==
    stage_no >= 1 =>
        LET bodies == fenced_bodies(split(content, NL), 1)
        IN  /\ occurrences(html, "&amp;") >= raw_count(bodies, "&")
            /\ occurrences(html, "&lt;") >= raw_count(bodies, "<")
            /\ occurrences(html, "&gt;") >= raw_count(bodies, ">")

\* The fenced code blocks of a document, as the claim defines them, with
\* their language tags: the tag is what follows the three backquotes on the
\* opening line.
RECURSIVE fenced_blocks(_, _)
fenced_blocks(ls, i) ==
    IF i > Len(ls) THEN << >>
    ELSE IF startswith(ls[i], FENCE)
    THEN LET closing == {j \in (i + 1)..Len(ls) : ls[j] = FENCE}
         IN  IF closing = {} THEN << >>
             ELSE <<[tag |-> SubSeq(ls[i], Len(FENCE) + 1, Len(ls[i])),
                     body |-> join(NL, SubSeq(ls, i + 1, Min(closing) - 1))]>>
                  \o fenced_blocks(ls, Min(closing) + 1)
    ELSE fenced_blocks(ls, i + 1)

\* C11: a fenced block is highlighted exactly when its language tag, lowercased,
\* is one of java, javascript, js, typescript, ts; for a block whose tag is
\* absent or not in that set the code-block stage emits the HTML-escaped body
\* only, and when no block of the document has a recognized tag the stage
\* emits no span at all.
C11_HighlightedIffRecognized ==
    stage_no = 1 =>
        LET blocks == fenced_blocks(split(content, NL), 1)
        IN  /\ \A k \in 1..Len(blocks) :
                   contains(html,
                            "<pre><code>"
                            \o (IF lower(blocks[k].tag) \in {"java", "javascript", "js",
                                                             "typescript", "ts"}
                                THEN apply_syntax_highlighting(blocks[k].body)
                                ELSE html_escape(blocks[k].body))
                            \o "</code></pre>")
            /\ (\A k \in 1..Len(blocks) :
                    lower(blocks[k].tag) \notin {"java", "javascript", "js",
                                                 "typescript", "ts"})
                   => ~contains(html, "<span")

\* the set of the lines of a text
lines_of(s) == LET ls == split(s, NL) IN {ls[i] : i \in 1..Len(ls)}

\* the lines that a stage emits: those of its output b that its input a has not
emitted_lines(a, b) == lines_of(b) \ lines_of(a)

\* For the text t6 that reaches the block stages: emitted is the set of the
\* lines that the table, list and blockquote stages emit, reaching the set of
\* the lines that reach the paragraph stage.  Each text is bound by a set
\* constructor so that it is computed once.
block_lines(t6) ==
    CHOOSE r \in
        UNION {UNION {{[emitted |-> emitted_lines(t6, t7) \cup emitted_lines(t7, t8)
                                   \cup emitted_lines(t8, t9),
                        reaching |-> lines_of(t9)]
                       : t9 \in {stage(stage_names[9], t8)}}
                      : t8 \in {stage(stage_names[8], t7)}}
               : t7 \in {stage(stage_names[7], t6)}} : TRUE

block_lines_of(s) == CHOOSE r \in {block_lines(t6) : t6 \in {run_stages(s, 6)}} : TRUE

\* C18: the block stages run in the order tables, lists, blockquotes,
\* paragraphs, and the paragraph machine wraps no line that the table machine
\* emitted for a converted table, no list tag or item of the list machine and
\* no line of the blockquote machine: every such line that reaches the
\* paragraph machine is in its output as it was, and the output has no <p>
\* element around such a line.
C18_BlockLinesNotWrapped ==
    /\ SubSeq(stage_names, 7, 10) = <<"tables", "lists", "blockquotes", "paragraphs">>
    /\ stage_no = 10 =>
           \A r \in {block_lines_of(content)} :
               \A l \in r.emitted :
                   /\ ("<p>" \o l \o "</p>") \notin lines_of(html)
                   /\ l \in r.reaching => l \in lines_of(html)

C18_Witness ==
    /\ stage_no = 10
    /\ content = "|a|b|\n|-|-|\n> q"
    /\ {"<table>", "<p>q</p>"} \subseteq block_lines_of(content).emitted
    /\ contains(html, "</table>\n</div>\n<blockquote>\n<p>q</p>\n</blockquote>")

-----------------------------------------------------------------------------
(* _convert_table                                                          *)

\* the largest number of lines after the second line of a table run
MaxBodyRows == 2

TableHeaders == {"|a|b|c|", "| a | b |", "  |a|b|", "|a"}

SecondLines ==
    {"|---|:---:|---:|", "| --- | :-: |", "|:--|--:|", "  |---|:---:|", "|---",
     "|-|x|", "|1|2|3|", "|x|---|", "|:-:|"}

BodyRows == {"|1|2|3|", "| 4 | 5 |"}

InitTable ==
    /\ pc = "convert_table"
    /\ table_in \in {<<h, s>> \o body : h \in TableHeaders, s \in SecondLines,
                                        body \in LineSeqs(BodyRows, MaxBodyRows)}
    /\ table_out = << >>
    /\ IdleMain /\ IdleLists /\ IdleHighlight /\ IdlePipeline
    /\ IdleMachines

\* _convert_table on a run of at least two lines, up to the list html
ConvertTable ==
    /\ pc = "convert_table"
    /\ table_out' = convert_table_lines(table_in)
    /\ pc' = "convert_table_done"
    /\ UNCHANGED <<table_in, main_vars, list_vars, highlight_vars, pipeline_vars,
                   machine_vars>>

NextTable == ConvertTable

SpecTable == InitTable /\ [][NextTable]_vars

\* a separator cell: an optional colon, one or more hyphens, an optional colon
is_separator_cell(cell) ==
    LET a == IF startswith(cell, ":") THEN 1 ELSE 0
        h == char_run(cell, "-", a + 1)
    IN  /\ h >= 1
        /\ \/ a + h = Len(cell)
           \/ a + h + 1 = Len(cell) /\ endswith(cell, ":")

\* a separator row: each of its cells is a separator cell
is_separator_row(line) ==
    \A i \in 1..Len(row_cells(line)) : is_separator_cell(row_cells(line)[i])

\* the alignment the separator row gives column i
separator_alignment(line, i) ==
    LET cells == row_cells(line)
    IN  IF i > Len(cells) THEN "left"
        ELSE IF startswith(cells[i], ":") /\ endswith(cells[i], ":") THEN "center"
        ELSE IF endswith(cells[i], ":") THEN "right"
        ELSE "left"

\* the number of body rows of the converted table: its <tr> but the header's
body_row_count(out) == count_lines(out, Len(out), "<tr>") - 1

\* the lines of the converted table that hold the cells of input row k
\* (k = 1 for the header), given the number of lines that are not body rows
row_out(out, tlines, k, skipped) ==
    LET n == Len(row_cells(tlines[1]))
        RECURSIVE before(_)
        before(j) == IF j >= k THEN 0 ELSE Len(row_cells(tlines[j])) + 2 + before(j + 1)
        start == IF k = 1 THEN 6 + n ELSE 9 + 2 * n + before(skipped + 1) + 1
    IN  SubSeq(out, start + 1, start + Len(row_cells(tlines[k])))

\* C7: for a table run whose second line is a separator row, column i of the
\* header and of every body row is aligned center when separator cell i has
\* a colon on both sides, right when it has only a trailing colon, and left
\* otherwise, and the separator row is not part of the body, which has
\* exactly (run length - 2) rows.
C7_SeparatorGivesAlignment ==
    (pc = "convert_table_done" /\ is_separator_row(table_in[2])) =>
        /\ body_row_count(table_out) = Len(table_in) - 2
        /\ \A i \in 1..Len(row_cells(table_in[1])) :
              row_out(table_out, table_in, 1, 2)[i]
                  = th_line(separator_alignment(table_in[2], i), row_cells(table_in[1])[i])
        /\ \A k \in 3..Len(table_in) :
              \A i \in 1..Len(row_cells(table_in[k])) :
                  row_out(table_out, table_in, k, 2)[i]
                      = td_line(separator_alignment(table_in[2], i), row_cells(table_in[k])[i])

\* C8: the second line of a table run is treated as the separator row exactly
\* when each of its cells is an optional colon, one or more hyphens and an
\* optional colon; in every other case it is emitted as a body row and every
\* column is left-aligned.
C8_SeparatorExactlyWhenAllCellsMatch ==
    pc = "convert_table_done" =>
        IF is_separator_row(table_in[2])
        THEN body_row_count(table_out) = Len(table_in) - 2
        ELSE /\ body_row_count(table_out) = Len(table_in) - 1
             /\ \A i \in 1..Len(row_cells(table_in[2])) :
                   row_out(table_out, table_in, 2, 1)[i]
                       = td_line("left", row_cells(table_in[2])[i])
             /\ \A n \in 1..Len(table_out) :
                   /\ ~contains(table_out[n], "text-align: center")
                   /\ ~contains(table_out[n], "text-align: right")

=============================================================================
